---- MODULE Spec2Model ----
(***************************************************************************)
(* A model of owmeta_pytest_plugin: the bundle fixture factory             *)
(* (bundle_fixture_helper), the sandbox fixtures (shell_helper,            *)
(* owm_project and their context-manager variants), the command runner     *)
(* (Data.sh) and Data.make_module.                                         *)
(*                                                                         *)
(* Five specifications share the module:                                   *)
(*   Spec         the bundle fixtures driven by a sequence of tests        *)
(*   SpecLoader   the same, with the test bodies asking the fake loaders   *)
(*   SpecSandbox  the life cycle of the sandboxes                          *)
(*   SpecSh       Data.sh, one loop iteration per step                     *)
(*   SpecModule   Data.make_module, one loop test per step                 *)
(***************************************************************************)
EXTENDS Integers, Sequences, FiniteSets, TLC

VARIABLES
    \* ---- bundle fixtures ----
    closure,      \* fixture function -> its closure cells (bundle_id, version)
    registry,     \* owmeta_core's process-wide set of registered loader classes
    active,       \* stack of the bundle generators suspended at their yield
    phase,        \* the running test: "idle", "setup", or finalizing after the
                  \* body "passed", the body "failed" or a setup "error"
    marker,       \* the bundle_remote marker of the running test
    nact,         \* number of activations so far (names the loader classes)
    last,         \* what the latest activation's setup did
    bundleDirs,   \* the (id, version) pairs found under TEST_BUNDLES_DIRECTORY
    loaded,       \* the call of a fake loader's can_load that the running test
                  \* body made last, and its answer
    \* ---- sandboxes ----
    fs,           \* the paths that exist on the filesystem
    boxes,        \* the sandboxes made so far, in order of creation
    \* ---- Data.sh ----
    sh_pc, sh_command, sh_stderr, sh_outputs, sh_executed, sh_log, sh_ret,
    \* ---- Data.make_module ----
    mm_pc, mm_module, mm_modpath, mm_last_dname, mm_dname, mm_base,
    mm_dirs, mm_files, mm_before, mm_ret, mm_calls

bundleVars  == <<closure, registry, active, phase, marker, nact, last, bundleDirs,
                 loaded>>
sandboxVars == <<fs, boxes>>
shVars      == <<sh_pc, sh_command, sh_stderr, sh_outputs, sh_executed, sh_log, sh_ret>>
mmVars      == <<mm_pc, mm_module, mm_modpath, mm_last_dname, mm_dname, mm_base,
                 mm_dirs, mm_files, mm_before, mm_ret, mm_calls>>
vars        == <<bundleVars, sandboxVars, shVars, mmVars>>

None == "None"

(***************************************************************************)
(*                         B U N D L E   F I X T U R E S                   *)
(***************************************************************************)

\* Bounds of the bundle model.
MaxVersion     == 2
MaxActivations == 2

\* version=None, the default of bundle_fixture_helper's second parameter.
NoVersion == 0

Ids      == {"example/aBundle", "other/bundle"}
Versions == 1..MaxVersion

\* The ids that may have directories staged under TEST_BUNDLES_DIRECTORY.
StagedIds == {"example/aBundle"}

\* The fixture functions: the module-level `bundle` (id and version deferred),
\* `example_bundle` of the tests (version deferred) and a fully pinned one.
Fixtures == {"bundle", "example_bundle", "pinned_bundle"}

bundle_fixture_helper(fixturename) ==
    CASE fixturename = "bundle"         -> [bundle_id |-> None, version |-> NoVersion]
      [] fixturename = "example_bundle" -> [bundle_id |-> "example/aBundle", version |-> NoVersion]
      [] fixturename = "pinned_bundle"  -> [bundle_id |-> "example/aBundle", version |-> 1]

\* request.param: absent (AttributeError), an (id, version) pair from the
\* `bundles` decorator, or a version from the `bundle_versions` decorator.
NoParam == [kind |-> "none", id |-> None, version |-> NoVersion]

bundles == {[kind |-> "pair", id |-> i, version |-> v] : i \in Ids, v \in Versions}

bundle_versions == {[kind |-> "version", id |-> None, version |-> v] : v \in Versions}

\* The parametrizations a test can give a fixture.
Params(fixturename) ==
    IF fixturename = "bundle" THEN {NoParam} \cup bundles
                              ELSE {NoParam} \cup bundle_versions

\* What the test's bundle_remote marker names: no marker, an empty name, a
\* serialized-remote file, a remote stored under .owm/remotes, or neither.
Markers == {"none", "empty", "file", "stored", "unknown"}

FileRemote   == [name |-> "file-remote", loader |-> 0]
StoredRemote == [name |-> "stored-remote", loader |-> 0]

\* Lines 48-59: the deferred closure cells are filled from request.param.
\* The cells are nonlocal: what is written here stays for later activations.
ResolveDeferred(cl, param) ==
    IF cl.bundle_id = None /\ cl.version = NoVersion
    THEN IF param.kind = "none"
         THEN [err |-> "UseBundles", cl |-> cl]
         ELSE [err |-> "ok", cl |-> [bundle_id |-> param.id, version |-> param.version]]
    ELSE IF cl.version = NoVersion
    THEN IF param.kind = "none"
         THEN [err |-> "UseBundleVersions", cl |-> cl]
         ELSE [err |-> "ok", cl |-> [cl EXCEPT !.version = param.version]]
    ELSE [err |-> "ok", cl |-> cl]

\* A plausible slip: remote_defined set without testing what
\* retrieve_remote_by_name returned.
ResolveRemoteUnchecked(m) ==
    CASE m = "file"    -> [remote_defined |-> TRUE,  remotes |-> <<>>]
      [] m = "stored"  -> [remote_defined |-> TRUE,  remotes |-> <<StoredRemote>>]
      [] m = "unknown" -> [remote_defined |-> TRUE,  remotes |-> <<>>]
      [] OTHER         -> [remote_defined |-> FALSE, remotes |-> <<>>]

\* Lines 61-79: the marker's remote, read from a file (remote_defined is set,
\* the remote read is not appended) or retrieved by name (appended).
ResolveRemote(m) ==
    CASE m = "file"    -> [remote_defined |-> TRUE,  remotes |-> <<>>]
      [] m = "stored"  -> [remote_defined |-> TRUE,  remotes |-> <<StoredRemote>>]
      [] m = "unknown" -> [remote_defined |-> FALSE, remotes |-> <<>>]
      [] OTHER         -> [remote_defined |-> FALSE, remotes |-> <<>>]

\* source_directory = None (line 89)
NoDirectory == <<>>

\* find_bundle_directory(TEST_BUNDLES_DIRECTORY, bundle_id, version)
find_bundle_directory(dirs, bundle_id, version) ==
    IF <<bundle_id, version>> \in dirs
    THEN <<"bundles", bundle_id, version>>
    ELSE <<"BundleNotFound">>

\* Line 117: Remote(f'test_{request.fixturename}', (TestAC(),)); the accessor
\* config is equal only to itself, so the remote is tied to one loader class.
FakeRemote(fixturename, aid) == [name |-> fixturename, loader |-> aid]

\* Lines 81-118: the lookup, the except clause and the else clause.
Lookup(dirs, cl, rr, fixturename, aid) ==
    LET sd == find_bundle_directory(dirs, cl.bundle_id, cl.version) IN
    IF sd = <<"BundleNotFound">>
    THEN IF ~rr.remote_defined
         THEN [raised |-> TRUE, loader |-> FALSE, source_directory |-> NoDirectory,
               remotes |-> <<>>]
         ELSE [raised |-> FALSE, loader |-> FALSE, source_directory |-> NoDirectory,
               remotes |-> rr.remotes]
    ELSE [raised |-> FALSE, loader |-> TRUE, source_directory |-> sd,
          remotes |-> Append(rr.remotes, FakeRemote(fixturename, aid))]

\* Line 116: TestBundleLoader.register()
Register(reg, aid) == reg \cup {aid}

\* A plausible slip: the generator ends at its yield and never unregisters.
UnregisterNever(reg, a) == reg

\* Lines 125-126: if TestBundleLoader: TestBundleLoader.unregister()
Unregister(reg, a) == IF a.loader THEN reg \ {a.aid} ELSE reg

NoLast ==
    [result |-> "none", fixture |-> "bundle", param |-> NoParam, marker |-> "none",
     bundle_id |-> None, version |-> NoVersion, lookup |-> FALSE,
     registered |-> FALSE]

\* The comparison with the version the fixture was made for.
can_loadStrict(cl, ident, version) == ident = cl.bundle_id /\ version = cl.version

\* Lines 111-112: TestBundleLoader.can_load. bundle_id is the closure cell;
\* the parameter `version` hides the closure's, so it is compared with itself.
can_load(cl, ident, version) == ident = cl.bundle_id /\ version = version

NoCall ==
    [called |-> FALSE, fixture |-> "bundle", ident |-> None, version |-> NoVersion,
     result |-> FALSE]

Finalizing == {"passed", "failed", "error"}

ActiveFixtures == {active[i].fixture : i \in 1..Len(active)}

InitBundle ==
    /\ closure = [f \in Fixtures |-> bundle_fixture_helper(f)]
    /\ registry = {}
    /\ active = <<>>
    /\ phase = "idle"
    /\ marker = "none"
    /\ nact = 0
    /\ last = NoLast
    /\ bundleDirs \in SUBSET (StagedIds \X Versions)
    /\ loaded = NoCall

\* pytest picks the next test; its marker is the test's own.
StartTest(m) ==
    /\ phase = "idle"
    /\ nact < MaxActivations
    /\ phase' = "setup"
    /\ marker' = m
    /\ UNCHANGED <<closure, registry, active, nact, last, bundleDirs, loaded>>
    /\ UNCHANGED <<sandboxVars, shVars, mmVars>>

\* The setup half of the generator `bundle` (lines 45-124): everything up to
\* the yield, or up to the exception that leaves it.
Activate(fixturename, param) ==
    /\ phase = "setup"
    /\ fixturename \notin ActiveFixtures
    /\ nact < MaxActivations
    /\ LET aid  == nact + 1
           res  == ResolveDeferred(closure[fixturename], param)
           rr   == ResolveRemote(marker)
           lk   == Lookup(bundleDirs, res.cl, rr, fixturename, aid)
           info == [fixture |-> fixturename, param |-> param, marker |-> marker,
                    bundle_id |-> res.cl.bundle_id, version |-> res.cl.version]
       IN
       /\ nact' = aid
       /\ closure' = [closure EXCEPT ![fixturename] = res.cl]
       /\ IF res.err # "ok"
          THEN /\ last' = info @@ [result |-> res.err, lookup |-> FALSE, registered |-> FALSE]
               /\ phase' = "error"
               /\ UNCHANGED <<registry, active>>
          ELSE IF lk.raised
          THEN /\ last' = info @@ [result |-> "BundleNotFound", lookup |-> TRUE,
                                   registered |-> FALSE]
               /\ phase' = "error"
               /\ UNCHANGED <<registry, active>>
          ELSE /\ last' = info @@ [result |-> "yielded", lookup |-> TRUE,
                                   registered |-> lk.loader]
               /\ registry' = IF lk.loader THEN Register(registry, aid) ELSE registry
               /\ active' = Append(active,
                      [aid |-> aid, fixture |-> fixturename, param |-> param,
                       marker |-> marker, loader |-> lk.loader,
                       desc |-> [id |-> res.cl.bundle_id, version |-> res.cl.version,
                                 source_directory |-> lk.source_directory,
                                 remote |-> lk.remotes]])
               /\ UNCHANGED phase
    /\ loaded' = NoCall
    /\ UNCHANGED <<marker, bundleDirs>>
    /\ UNCHANGED <<sandboxVars, shVars, mmVars>>

\* The test body runs with the fixtures set up so far; it returns or raises.
\* Either way pytest goes on to finalize the fixtures.
RunBody(passed) ==
    /\ phase = "setup"
    /\ phase' = IF passed THEN "passed" ELSE "failed"
    /\ loaded' = NoCall
    /\ UNCHANGED <<closure, registry, active, marker, nact, last, bundleDirs>>
    /\ UNCHANGED <<sandboxVars, shVars, mmVars>>

\* pytest resumes the most recently set up generator after its yield
\* (lines 125-126).
Teardown ==
    /\ phase \in Finalizing
    /\ active # <<>>
    /\ registry' = Unregister(registry, active[Len(active)])
    /\ active' = SubSeq(active, 1, Len(active) - 1)
    /\ UNCHANGED <<closure, phase, marker, nact, last, bundleDirs, loaded>>
    /\ UNCHANGED <<sandboxVars, shVars, mmVars>>

EndTest ==
    /\ phase \in Finalizing
    /\ active = <<>>
    /\ phase' = "idle"
    /\ UNCHANGED <<closure, registry, active, marker, nact, last, bundleDirs, loaded>>
    /\ UNCHANGED <<sandboxVars, shVars, mmVars>>

\* The test body (through Fetcher.fetch) asks the fake loader of a fixture
\* that registered one whether it can load a bundle (lines 111-112).
CanLoad(i, ident, version) ==
    /\ phase = "setup"
    /\ i \in 1..Len(active)
    /\ active[i].loader
    /\ active[i].aid \in registry
    /\ loaded' = [called |-> TRUE, fixture |-> active[i].fixture, ident |-> ident,
                  version |-> version,
                  result |-> can_load(closure[active[i].fixture], ident, version)]
    /\ UNCHANGED <<closure, registry, active, phase, marker, nact, last, bundleDirs>>
    /\ UNCHANGED <<sandboxVars, shVars, mmVars>>

(***************************************************************************)
(*                  P R O P E R T I E S :  bundle fixtures                 *)
(***************************************************************************)

Deferred(fixturename) ==
    LET args == bundle_fixture_helper(fixturename) IN
    IF args.bundle_id = None /\ args.version = NoVersion THEN "both"
    ELSE IF args.version = NoVersion THEN "version"
    ELSE "nothing"

\* The loader classes of the activations now suspended at their yield whose
\* descriptor has a source directory.
LoadersOfActive ==
    {active[i].aid : i \in {j \in 1..Len(active) :
                              active[j].desc.source_directory # NoDirectory}}

\* C1: at every moment the loader registry holds a fake loader for exactly the
\* active activations whose local source directory was found; in particular
\* it is empty once every fixture is torn down, whether the body passed,
\* failed, or a setup raised.
C1_RegistryScopedToActivations ==
    /\ registry = LoadersOfActive
    /\ (active = <<>> => registry = {})

\* A test whose body failed, whose fixture registered a loader, and whose
\* fixtures are all torn down again.
C1_Witness ==
    /\ phase = "failed"
    /\ active = <<>>
    /\ last.result = "yielded"
    /\ last.registered
    /\ registry = {}

\* C3: the descriptor of every activation of a fixture with deferred fields
\* carries that activation's own parametrization in the deferred fields.
C3_OwnParametrization ==
    \A i \in 1..Len(active) :
        LET a == active[i] IN
        /\ (Deferred(a.fixture) = "both" /\ a.param.kind = "pair")
              => (a.desc.id = a.param.id /\ a.desc.version = a.param.version)
        /\ (Deferred(a.fixture) = "version" /\ a.param.kind = "version")
              => a.desc.version = a.param.version

\* The remote a marker resolves to.
MarkerRemote(m) == IF m = "file" THEN FileRemote ELSE StoredRemote

\* C4: when the marker resolves to a remote, that remote is in the yielded
\* descriptor's remotes: alone when no source directory was found (and no
\* loader is registered), beside the fake provider's remote otherwise.
C4_ResolvedRemoteInRemotes ==
    \A i \in 1..Len(active) :
        LET a == active[i] IN
        a.marker \in {"file", "stored"} =>
            IF a.desc.source_directory = NoDirectory
            THEN /\ a.desc.remote = <<MarkerRemote(a.marker)>>
                 /\ a.aid \notin registry
            ELSE /\ Len(a.desc.remote) = 2
                 /\ \E k \in 1..2 : a.desc.remote[k] = MarkerRemote(a.marker)
                 /\ \E k \in 1..2 : a.desc.remote[k] = FakeRemote(a.fixture, a.aid)

\* C5: an activation that reaches the lookup fails with BundleNotFound exactly
\* when the directory of the id and version it looks up is not found and the
\* marker resolved to no remote; then nothing is yielded and no loader is
\* registered; with a remote resolved the activation yields.
C5_NotFoundIffNoSourceNoRemote ==
    last.lookup =>
        /\ last.result \in {"BundleNotFound", "yielded"}
        /\ (last.result = "BundleNotFound") <=>
              (/\ <<last.bundle_id, last.version>> \notin bundleDirs
               /\ last.marker \notin {"file", "stored"})
        /\ last.result = "BundleNotFound" =>
              /\ ~last.registered
              /\ nact \notin registry
              /\ \A i \in 1..Len(active) : active[i].aid # nact

\* A lookup that failed for a marker naming neither a file nor a stored remote.
C5_Witness ==
    /\ last.result = "BundleNotFound"
    /\ last.marker = "unknown"
    /\ phase = "error"

\* C6: an activation of a fixture with deferred fields for a test without
\* parametrization fails with the usage error of its decorator, whatever ran
\* before; no lookup is attempted and no loader is registered.
C6_UsageErrorWithoutParam ==
    (last.result # "none" /\ last.param.kind = "none"
        /\ Deferred(last.fixture) # "nothing") =>
        /\ last.result = IF Deferred(last.fixture) = "both"
                         THEN "UseBundles" ELSE "UseBundleVersions"
        /\ ~last.lookup
        /\ ~last.registered

\* C11 as stated: can_load answers true for every requested id and every
\* requested version, whatever the fixture was made for.
C11_AcceptsAnyRequest ==
    loaded.called => loaded.result

\* C11 amended: can_load answers true exactly when the requested id is the
\* bundle id of the loader's fixture, whatever version is requested.
C11_AcceptsOwnIdAnyVersion ==
    loaded.called =>
        (loaded.result <=> loaded.ident = closure[loaded.fixture].bundle_id)

\* A loader accepted a request for a version other than its fixture's.
C11_Witness ==
    /\ loaded.called
    /\ loaded.result
    /\ loaded.version # closure[loaded.fixture].version

(***************************************************************************)
(*                              S A N D B O X E S                          *)
(***************************************************************************)

\* Bound of the sandbox model: the sandboxes made in one run.
MaxBoxes == 2

\* The fixtures and context managers that produce a sandbox.
BoxKinds == {"shell_helper", "shell_helper_with_customizations",
             "owm_project", "owm_project_with_customizations"}

ProjectKinds == {"owm_project", "owm_project_with_customizations"}

\* The files a test stages in its sandbox (Data.writefile, Data.copy).
StagedNames == {"some.txt", "target"}

IsPrefix(root, path) ==
    /\ Len(root) <= Len(path)
    /\ SubSeq(path, 1, Len(root)) = root

\* Data.__init__: tempfile.mkdtemp gives every Data a directory of its own.
mkdtemp(n) == <<"tmp", n>>

\* Data.__init__: test_homedir = p(testdir, 'homedir')
test_homedir(testdir) == Append(testdir, "homedir")

\* os.rmdir in place of shutil.rmtree: removes a directory only when empty.
rmdir(files, root) ==
    IF \E q \in files : IsPrefix(root, q) /\ q # root THEN files ELSE files \ {root}

\* shutil.rmtree(res.testdir): the directory and everything below it.
rmtree(files, root) == {q \in files : ~IsPrefix(root, q)}

\* _shell_helper (lines 254-275): the working directory, the home directory
\* and, with pytest-cov installed, sitecustomize.py.
ShellHelper(files, testdir, hasCov) ==
    files \cup {testdir, test_homedir(testdir)}
          \cup (IF hasCov THEN {Append(testdir, "sitecustomize.py")} ELSE {})

\* `owm -b init` run in the sandbox leaves the project directory .owm.
OwmInit(files, testdir) == files \cup {Append(testdir, ".owm")}

InitSandbox ==
    /\ fs = {}
    /\ boxes = <<>>

\* shell_helper (lines 224-234) and the context manager made by
\* shell_helper_with_customizations (lines 244-250), up to the yield.
EnterShellHelper(kind, hasCov, customizations) ==
    /\ kind \notin ProjectKinds
    /\ kind = "shell_helper" => ~customizations
    /\ Len(boxes) < MaxBoxes
    /\ LET testdir == mkdtemp(Len(boxes) + 1) IN
       /\ fs' = ShellHelper(fs, testdir, hasCov)
       /\ boxes' = Append(boxes, [kind |-> kind, testdir |-> testdir,
                                  customizations |-> customizations,
                                  pc |-> "yielded", exit |-> "none"])
    /\ UNCHANGED <<bundleVars, shVars, mmVars>>

\* _owm_project_helper.f (lines 191-220) up to the yield, or, when the init
\* command exits non-zero, through the finally clause.
EnterOwmProject(kind, hasCov, customizations, initOk) ==
    /\ kind \in ProjectKinds
    /\ kind = "owm_project" => ~customizations
    /\ Len(boxes) < MaxBoxes
    /\ LET testdir == mkdtemp(Len(boxes) + 1)
           made    == ShellHelper(fs, testdir, hasCov)
           box     == [kind |-> kind, testdir |-> testdir,
                       customizations |-> customizations,
                       pc |-> "yielded", exit |-> "none"]
       IN
       IF initOk
       THEN /\ fs' = OwmInit(made, testdir)
            /\ boxes' = Append(boxes, box)
       ELSE /\ fs' = rmtree(made, testdir)
            /\ boxes' = Append(boxes, [box EXCEPT !.pc = "exited",
                                                  !.exit = "init_failed"])
    /\ UNCHANGED <<bundleVars, shVars, mmVars>>

\* apply_customizations (lines 269-272): appends to sitecustomize.py.
ApplyCustomizations(i) ==
    /\ i \in 1..Len(boxes)
    /\ boxes[i].pc = "yielded"
    /\ boxes[i].customizations
    /\ Append(boxes[i].testdir, "sitecustomize.py") \notin fs
    /\ fs' = fs \cup {Append(boxes[i].testdir, "sitecustomize.py")}
    /\ UNCHANGED boxes
    /\ UNCHANGED <<bundleVars, shVars, mmVars>>

\* Data.writefile / Data.copy (lines 312-326, 359-385): the test stages a
\* file under testdir.
Stage(i, name) ==
    /\ i \in 1..Len(boxes)
    /\ boxes[i].pc = "yielded"
    /\ Append(boxes[i].testdir, name) \notin fs
    /\ fs' = fs \cup {Append(boxes[i].testdir, name)}
    /\ UNCHANGED boxes
    /\ UNCHANGED <<bundleVars, shVars, mmVars>>

\* The body that holds the sandbox returns or raises: the finally clause
\* (lines 219-220, 233-234, 249-250) runs.
ExitBox(i, raised) ==
    /\ i \in 1..Len(boxes)
    /\ boxes[i].pc = "yielded"
    /\ fs' = rmtree(fs, boxes[i].testdir)
    /\ boxes' = [boxes EXCEPT ![i].pc = "exited",
                              ![i].exit = IF raised THEN "raised" ELSE "returned"]
    /\ UNCHANGED <<bundleVars, shVars, mmVars>>

NextSandbox ==
    \/ \E k \in BoxKinds, c \in BOOLEAN, u \in BOOLEAN : EnterShellHelper(k, c, u)
    \/ \E k \in BoxKinds, c \in BOOLEAN, u \in BOOLEAN, ok \in BOOLEAN :
           EnterOwmProject(k, c, u, ok)
    \/ \E i \in 1..MaxBoxes : ApplyCustomizations(i)
    \/ \E i \in 1..MaxBoxes, n \in StagedNames : Stage(i, n)
    \/ \E i \in 1..MaxBoxes, r \in BOOLEAN : ExitBox(i, r)

\* C2: once a sandbox's fixture or context manager has exited (the body
\* returned, the body raised, or the project initialisation failed), its
\* working directory and the home directory inside it do not exist.
C2_SandboxGoneAfterExit ==
    \A i \in 1..Len(boxes) :
        boxes[i].pc = "exited" =>
            /\ boxes[i].testdir \notin fs
            /\ test_homedir(boxes[i].testdir) \notin fs

\* A project sandbox whose initialisation failed, and a sandbox holding a
\* staged file that was left by a raising body.
C2_Witness ==
    /\ \E i \in 1..Len(boxes) : boxes[i].exit = "init_failed"
    /\ \E i \in 1..Len(boxes) : boxes[i].exit = "raised"
    /\ fs = {}

(***************************************************************************)
(*                                D a t a . s h                            *)
(***************************************************************************)

\* Bound of the command runner's model: the command lines of one call.
MaxCommands == 2

\* The command lines, by what the process does: its exit status and
\* whether it writes to stdout and to stderr.
Commands == {"python", "echo", "false", "fail_out", "fail_err", "fail_both"}

Failing == {"false", "fail_out", "fail_err", "fail_both"}

ReturnCode(cmd) == IF cmd \in Failing THEN 1 ELSE 0

\* What a process writes, as the sequence of its chunks (empty: nothing).
Stdout(cmd) == IF cmd \in {"echo", "fail_out", "fail_both"} THEN <<"out", cmd>> ELSE <<>>

Stderr(cmd) == IF cmd \in {"fail_err", "fail_both"} THEN <<"err", cmd>> ELSE <<>>

\* The `stderr` keyword handed on to check_output through **kwargs: absent
\* (the child inherits stderr), subprocess.PIPE or subprocess.STDOUT.
StderrModes == {"inherit", "PIPE", "STDOUT"}

\* check_output(shlex.split(cmd), env=env, cwd=self.testdir, **kwargs): the
\* captured output, and the CalledProcessError's stderr (None unless piped).
check_output(cmd, mode) ==
    [returncode |-> ReturnCode(cmd),
     output     |-> IF mode = "STDOUT" THEN Stdout(cmd) \o Stderr(cmd) ELSE Stdout(cmd),
     stderr     |-> IF mode = "PIPE" THEN [captured |-> TRUE, data |-> Stderr(cmd)]
                                     ELSE [captured |-> FALSE, data |-> <<>>]]

Banner(stream, cmd, text) == [stream |-> stream, cmd |-> cmd, text |-> text]

\* A plausible slip: the stderr banner is filled with e.output.
PrintFailureCopied(cmd, e) ==
    (IF e.output # <<>> THEN <<Banner("stdout", cmd, e.output)>> ELSE <<>>)
    \o (IF e.stderr.captured /\ e.stderr.data # <<>>
        THEN <<Banner("stderr", cmd, e.output)>> ELSE <<>>)

\* Lines 419-432: what the except clause prints before it re-raises.
PrintFailure(cmd, e) ==
    (IF e.output # <<>> THEN <<Banner("stdout", cmd, e.output)>> ELSE <<>>)
    \o (IF e.stderr.captured /\ e.stderr.data # <<>>
        THEN <<Banner("stderr", cmd, e.stderr.data)>> ELSE <<>>)

\* A plausible slip: the list is returned whatever its length.
ShResultAlwaysList(outputs) == [kind |-> "list", val |-> outputs]

\* Line 434: return outputs[0] if len(outputs) == 1 else outputs
ShResult(outputs) ==
    IF Len(outputs) = 1 THEN [kind |-> "str", val |-> outputs[1]]
                        ELSE [kind |-> "list", val |-> outputs]

CommandLists == UNION {[1..n -> Commands] : n \in 0..MaxCommands}

InitSh ==
    /\ sh_pc = "idle"
    /\ sh_command = <<>>
    /\ sh_stderr = "inherit"
    /\ sh_outputs = <<>>
    /\ sh_executed = <<>>
    /\ sh_log = <<>>
    /\ sh_ret = [kind |-> "none"]

\* Data.sh is called (lines 406-414).
ShCall(command, mode) ==
    /\ sh_pc \in {"idle", "returned", "raised"}
    /\ sh_command' = command
    /\ sh_stderr' = mode
    /\ sh_outputs' = <<>>
    /\ sh_executed' = <<>>
    /\ sh_log' = <<>>
    /\ IF command = <<>>
       THEN /\ sh_pc' = "returned"
            /\ sh_ret' = [kind |-> "None"]
       ELSE /\ sh_pc' = "loop"
            /\ sh_ret' = [kind |-> "none"]
    /\ UNCHANGED <<bundleVars, sandboxVars, mmVars>>

\* One iteration of `for cmd in command` (lines 415-433).
ShIter ==
    /\ sh_pc = "loop"
    /\ Len(sh_executed) < Len(sh_command)
    /\ LET cmd == sh_command[Len(sh_executed) + 1]
           e   == check_output(cmd, sh_stderr)
       IN
       /\ sh_executed' = Append(sh_executed, cmd)
       /\ IF e.returncode = 0
          THEN /\ sh_outputs' = Append(sh_outputs, e.output)
               /\ UNCHANGED <<sh_pc, sh_log, sh_ret>>
          ELSE /\ sh_log' = sh_log \o PrintFailure(cmd, e)
               /\ sh_pc' = "raised"
               /\ sh_ret' = [kind |-> "CalledProcessError", cmd |-> cmd]
               /\ UNCHANGED sh_outputs
    /\ UNCHANGED <<sh_command, sh_stderr>>
    /\ UNCHANGED <<bundleVars, sandboxVars, mmVars>>

\* The loop is over (line 434).
ShReturn ==
    /\ sh_pc = "loop"
    /\ Len(sh_executed) = Len(sh_command)
    /\ sh_pc' = "returned"
    /\ sh_ret' = ShResult(sh_outputs)
    /\ UNCHANGED <<sh_command, sh_stderr, sh_outputs, sh_executed, sh_log>>
    /\ UNCHANGED <<bundleVars, sandboxVars, mmVars>>

NextSh ==
    \/ \E c \in CommandLists, m \in StderrModes : ShCall(c, m)
    \/ ShIter
    \/ ShReturn

\* C7: a call with n >= 2 command lines that all exit zero runs them one at
\* a time in argument order and returns the sequence of the n outputs, the
\* i-th the output of the i-th command line; a call with one command line
\* returns that command's output as a single string.
C7_OutputsInCallOrder ==
    (sh_pc = "returned" /\ Len(sh_command) >= 1) =>
        /\ sh_executed = sh_command
        /\ Len(sh_command) >= 2 =>
              /\ sh_ret.kind = "list"
              /\ Len(sh_ret.val) = Len(sh_command)
              /\ \A i \in 1..Len(sh_command) :
                     sh_ret.val[i] = check_output(sh_command[i], sh_stderr).output
        /\ Len(sh_command) = 1 =>
              /\ sh_ret.kind = "str"
              /\ sh_ret.val = check_output(sh_command[1], sh_stderr).output

\* A call of several command lines with different outputs has returned.
C7_Witness ==
    /\ sh_pc = "returned"
    /\ Len(sh_command) >= 2
    /\ sh_ret.kind = "list"
    /\ sh_ret.val[1] # sh_ret.val[2]

\* The banners of one stream that the log holds for a command line.
Banners(stream, cmd) ==
    {k \in 1..Len(sh_log) : sh_log[k].stream = stream /\ sh_log[k].cmd = cmd}

\* C8 as stated: when a command line exits non-zero the call raises
\* CalledProcessError and the log holds exactly one stdout banner and
\* exactly one stderr banner of that command line.
C8_BothStreamsLoggedOnce ==
    sh_pc = "raised" =>
        /\ sh_ret.kind = "CalledProcessError"
        /\ Cardinality(Banners("stdout", sh_ret.cmd)) = 1
        /\ Cardinality(Banners("stderr", sh_ret.cmd)) = 1

\* C8 amended: when a command line exits non-zero the call raises
\* CalledProcessError for it, no later command line is run, and the log
\* holds one banner with the captured stdout when that is not empty and one
\* banner with the captured stderr when stderr was captured and is not
\* empty, and nothing else.
C8_NonEmptyCapturedStreamsLoggedOnce ==
    sh_pc = "raised" =>
        LET cmd == sh_ret.cmd
            e   == check_output(cmd, sh_stderr)
            out == e.output # <<>>
            err == e.stderr.captured /\ e.stderr.data # <<>>
        IN
        /\ sh_ret.kind = "CalledProcessError"
        /\ e.returncode # 0
        /\ cmd = sh_executed[Len(sh_executed)]
        /\ sh_executed = SubSeq(sh_command, 1, Len(sh_executed))
        /\ Cardinality(Banners("stdout", cmd)) = IF out THEN 1 ELSE 0
        /\ Cardinality(Banners("stderr", cmd)) = IF err THEN 1 ELSE 0
        /\ \A k \in Banners("stdout", cmd) : sh_log[k].text = e.output
        /\ \A k \in Banners("stderr", cmd) : sh_log[k].text = e.stderr.data
        /\ Len(sh_log) = (IF out THEN 1 ELSE 0) + (IF err THEN 1 ELSE 0)

\* A command line failed after another succeeded, and both of its streams
\* were logged.
C8_Witness ==
    /\ sh_pc = "raised"
    /\ Len(sh_executed) >= 2
    /\ Len(sh_log) = 2
    /\ sh_log[1].stream = "stdout"
    /\ sh_log[2].stream = "stderr"

(***************************************************************************)
(*                        D a t a . m a k e _ m o d u l e                  *)
(***************************************************************************)

\* Bounds of the make_module model: the components of a module path and
\* the calls made on one sandbox.
MaxDepth == 3
MaxCalls == 2

\* A path is the sequence of its components; an absolute path starts at "/".
Root == <<"/">>

\* Data.testdir of the sandbox the calls are made on.
testdir == <<"/", "tmp", "box">>

Names == {"a", "b"}

\* The relative paths handed to make_module: new names, and paths that
\* go through the home directory the sandbox already holds.
RelativePaths ==
    UNION {[1..n -> Names] : n \in 1..MaxDepth}
        \cup {<<"homedir">>, <<"homedir", "a">>}

\* Absolute paths outside the sandbox and inside it.
AbsolutePaths ==
    {Root} \cup {Root \o r : r \in {q \in RelativePaths : Len(q) <= 2}}
           \cup {testdir \o r : r \in {q \in RelativePaths : Len(q) <= 1}}

\* os.path.isabs
isabs(path) == Len(path) > 0 /\ path[1] = "/"

\* os.path.join (imported as p)
join(a, b) == IF isabs(b) THEN b ELSE a \o b

\* os.path.split: (head, tail); the root splits into itself and ''.
split_path(path) ==
    IF path = Root \/ path = <<>>
    THEN [head |-> path, tail |-> ""]
    ELSE [head |-> SubSeq(path, 1, Len(path) - 1), tail |-> path[Len(path)]]

\* The directories os.makedirs(path) makes: the leaf and its missing parents.
makedirs(dirs, path) == dirs \cup {SubSeq(path, 1, k) : k \in 1..Len(path)}

\* last_dname = None (line 348)
NoPath == <<"None">>

\* A plausible slip: the test of the argument is missing.
NeverRejects(module) == FALSE

\* Line 344: if isabs(module): raise ValueError
Rejects(module) == isabs(module)

InitModule ==
    /\ mm_pc = "idle"
    /\ mm_module = <<>>
    /\ mm_modpath = <<>>
    /\ mm_last_dname = NoPath
    /\ mm_dname = NoPath
    /\ mm_base = ""
    /\ mm_dirs = {Root, <<"/", "tmp">>, testdir, Append(testdir, "homedir")}
    /\ mm_files = {}
    /\ mm_before = [dirs |-> {}, files |-> {}]
    /\ mm_ret = <<"none">>
    /\ mm_calls = 0

\* make_module is called (lines 344-349): the argument is tested, the
\* directory chain is made and the loop variables are set.
MakeModuleCall(module) ==
    /\ mm_pc \in {"idle", "returned", "raised"}
    /\ mm_calls < MaxCalls
    /\ mm_calls' = mm_calls + 1
    /\ mm_module' = module
    /\ mm_before' = [dirs |-> mm_dirs, files |-> mm_files]
    /\ mm_base' = ""
    /\ IF Rejects(module)
       THEN /\ mm_pc' = "raised"
            /\ mm_ret' = <<"ValueError">>
            /\ mm_modpath' = NoPath
            /\ mm_last_dname' = NoPath
            /\ mm_dname' = NoPath
            /\ UNCHANGED <<mm_dirs, mm_files>>
       ELSE LET modpath == join(testdir, module) IN
            /\ mm_modpath' = modpath
            /\ IF modpath \in mm_dirs \/ modpath \in mm_files
               THEN /\ mm_pc' = "raised"
                    /\ mm_ret' = <<"FileExistsError">>
                    /\ mm_last_dname' = NoPath
                    /\ mm_dname' = NoPath
                    /\ UNCHANGED <<mm_dirs, mm_files>>
               ELSE /\ mm_dirs' = makedirs(mm_dirs, modpath)
                    /\ mm_last_dname' = NoPath
                    /\ mm_dname' = modpath
                    /\ mm_pc' = "outer"
                    /\ mm_ret' = <<"none">>
                    /\ UNCHANGED mm_files
    /\ UNCHANGED <<bundleVars, sandboxVars, shVars>>

\* The test of the outer loop (line 350) and, when it holds, the creation
\* of the marker file (lines 351-352); when it fails, the return (line 357).
MakeModuleOuter ==
    /\ mm_pc = "outer"
    /\ IF mm_last_dname # mm_dname /\ mm_dname # testdir
       THEN LET marker_file == join(mm_dname, <<"__init__.py">>) IN
            IF marker_file \in mm_files
            THEN /\ mm_pc' = "raised"
                 /\ mm_ret' = <<"FileExistsError">>
                 /\ UNCHANGED <<mm_files, mm_base>>
            ELSE /\ mm_files' = mm_files \cup {marker_file}
                 /\ mm_base' = ""
                 /\ mm_pc' = "inner"
                 /\ UNCHANGED mm_ret
       ELSE /\ mm_pc' = "returned"
            /\ mm_ret' = mm_modpath
            /\ UNCHANGED <<mm_files, mm_base>>
    /\ UNCHANGED <<mm_module, mm_modpath, mm_last_dname, mm_dname, mm_dirs,
                   mm_before, mm_calls>>
    /\ UNCHANGED <<bundleVars, sandboxVars, shVars>>

\* The test of the inner loop (line 353) and its body (lines 354-355),
\* which splits modpath.
MakeModuleInner ==
    /\ mm_pc = "inner"
    /\ IF mm_base = "" /\ mm_last_dname # mm_dname
       THEN /\ mm_last_dname' = mm_dname
            /\ mm_dname' = split_path(mm_modpath).head
            /\ mm_base' = split_path(mm_modpath).tail
            /\ UNCHANGED mm_pc
       ELSE /\ mm_pc' = "outer"
            /\ UNCHANGED <<mm_last_dname, mm_dname, mm_base>>
    /\ UNCHANGED <<mm_module, mm_modpath, mm_dirs, mm_files, mm_before, mm_ret,
                   mm_calls>>
    /\ UNCHANGED <<bundleVars, sandboxVars, shVars>>

NextModule ==
    \/ \E m \in RelativePaths \cup AbsolutePaths : MakeModuleCall(m)
    \/ MakeModuleOuter
    \/ MakeModuleInner

\* C9: on a fresh sandbox make_module of a relative path of n >= 1
\* components returns the full path of the leaf, having made the directory
\* chain and left __init__.py in the leaf and in every directory between
\* the sandbox root and the leaf, and none in the sandbox root.
C9_MarkerInEveryDirectory ==
    (mm_pc = "returned" /\ mm_calls = 1) =>
        /\ mm_ret = join(testdir, mm_module)
        /\ \A k \in 1..Len(mm_module) :
              LET d == join(testdir, SubSeq(mm_module, 1, k)) IN
              /\ d \in mm_dirs
              /\ join(d, <<"__init__.py">>) \in mm_files
        /\ join(testdir, <<"__init__.py">>) \notin mm_files

\* C10: make_module of an absolute path raises ValueError and leaves the
\* filesystem as it was: no directory and no file is made, in the sandbox
\* or outside it.
C10_AbsolutePathRejected ==
    (mm_pc # "idle" /\ isabs(mm_module)) =>
        /\ mm_pc = "raised"
        /\ mm_ret = <<"ValueError">>
        /\ mm_dirs = mm_before.dirs
        /\ mm_files = mm_before.files

\* An absolute path inside the sandbox was refused after an earlier call
\* had made a module there.
C10_Witness ==
    /\ mm_pc = "raised"
    /\ mm_ret = <<"ValueError">>
    /\ isabs(mm_module)
    /\ Len(mm_module) > Len(testdir)
    /\ SubSeq(mm_module, 1, Len(testdir)) = testdir
    /\ mm_files # {}

(***************************************************************************)
(*                          S P E C I F I C A T I O N S                    *)
(***************************************************************************)

Init == InitBundle /\ InitSandbox /\ InitSh /\ InitModule

Next ==
    \/ \E m \in Markers : StartTest(m)
    \/ \E f \in Fixtures : \E prm \in Params(f) : Activate(f, prm)
    \/ \E b \in BOOLEAN : RunBody(b)
    \/ Teardown
    \/ EndTest

Spec == Init /\ [][Next]_vars

NextLoader ==
    \/ Next
    \/ \E i \in 1..MaxActivations, id \in Ids, v \in Versions :
           CanLoad(i, id, v)

SpecLoader == Init /\ [][NextLoader]_vars

\* The other specifications leave the bundle fixtures in one initial state.
InitOther == Init /\ bundleDirs = {}

SpecSandbox == InitOther /\ [][NextSandbox]_vars

SpecSh == InitOther /\ [][NextSh]_vars

SpecModule == InitOther /\ [][NextModule]_vars

====
